---- MODULE Spec2Model ----
(***************************************************************************)
(* A model of tf_ddqn_cartpole.py: the DDQNAgent (replay buffer, epsilon   *)
(* schedule, train step, target update, persistence), the training loop    *)
(* run_training_routine and the evaluation loop run_sim_routine.           *)
(*                                                                         *)
(* Numbers.  Floats are fixed-point integers, products rounded to nearest: *)
(*   epsilon, uniform draws : 1.0 = EpsUnit                                *)
(*   epsilon_decay          : thousandths   (1.0 = DecayUnit)              *)
(*   q-values, weights      : thousandths   (1.0 = QUnit)                  *)
(*   gamma, tau             : hundredths                                   *)
(* Sizes.  The buffer capacity and the configuration of the training loop  *)
(* (episodes, step cap, batch size, update frequency, thresholds) carry    *)
(* the names they have in the source and small values, so that wrap-around *)
(* and early termination happen within a few steps.                        *)
(***************************************************************************)
EXTENDS Integers, Sequences, FiniteSets

\* ------------------------------------------------------------ sizes ----
\* DDQNAgent.__init__: memory_buffer_size = int(1e5), here scaled down.
memory_buffer_size == 2
\* run_training_routine's configuration, scaled down.
n_episodes == 3
max_iterations_ep == 2
batch_size == 3
q_network_update_freq == 2
success_threshold == 2
successfull_episodes_threshold == 2
\* Bounds on the calls of the free-call specifications and on the steps of
\* the evaluation loop.
MaxStores == 5
MaxTrains == 1
MaxEpsilonCalls == 480
MaxSimSteps == 6
MaxSoftCalls == 4

\* -------------------------------------------------------- constants ----
n_actions == 2
EpsUnit == 100000
DecayUnit == 1000
epsilon_decay == 995
min_epsilon == 10000
QUnit == 1000
lr == 5
gamma == 99
tau == 5

Actions == 0 .. (n_actions - 1)
\* Observations of the environment (a state vector, abstracted to a value):
\* reset() hands out ResetObs, step() the observation after the current one.
ResetObs == {0}
StepObs(state) == {state + 1}
\* The reward of one environment step: CartPole pays 1.0 for every step.
RewardValues == {1}
\* Rewards a caller of store_episode passes.
ApiRewards == {1, 2}
\* np.random.uniform(0, 1) draws from [0, 1): never 1.0.
UniformDraws == {0, EpsUnit \div 2, EpsUnit - 1}
\* Batch sizes a caller asks train for.
BatchSizes == {1, 2}
\* np.empty: a slot that store_episode never wrote holds arbitrary content,
\* marked here so that a read of it can be told apart.
Unwritten == -1

\* floor(x / d + 1/2): the rounding of a fixed-point product.
RoundDiv(x, d) == (2 * x + d) \div (2 * d)
Min(a, b) == IF a <= b THEN a ELSE b
Max(a, b) == IF a >= b THEN a ELSE b
Sign(x) == IF x > 0 THEN 1 ELSE IF x < 0 THEN -1 ELSE 0
\* float(done): the buffer's done array is numeric.
BoolToNum(b) == IF b THEN 1 ELSE 0

RECURSIVE SumSeq(_)
SumSeq(s) == IF s = <<>> THEN 0 ELSE Head(s) + SumSeq(Tail(s))

VARIABLES
    \* DDQNAgent
    epsilon,
    memory_buffer_pointer,
    buffer_full,
    memory_buffer_current_state,
    memory_buffer_next_state,
    memory_buffer_action,
    memory_buffer_reward,
    memory_buffer_done,
    q_model,
    q_target_model,
    \* the weights file ./models/double-dqn-model.weights.h5
    weights_file,
    \* the routine in progress and its locals
    pc,
    episode,
    step,
    total_steps,
    successfull_episodes,
    rewards,
    reward_history,
    current_state,
    next_state,
    done,
    \* observation of the calls made on the agent
    call,
    n_stores,
    n_train,
    n_soft,
    n_eps,
    n_saves

agent_vars == <<epsilon, memory_buffer_pointer, buffer_full,
                memory_buffer_current_state, memory_buffer_next_state,
                memory_buffer_action, memory_buffer_reward, memory_buffer_done,
                q_model, q_target_model>>
buffer_vars == <<memory_buffer_pointer, buffer_full,
                 memory_buffer_current_state, memory_buffer_next_state,
                 memory_buffer_action, memory_buffer_reward, memory_buffer_done>>
loop_vars == <<episode, step, total_steps, successfull_episodes, rewards,
               reward_history, current_state, next_state, done>>
count_vars == <<n_stores, n_train, n_soft, n_eps, n_saves>>
vars == <<agent_vars, weights_file, pc, loop_vars, call, count_vars>>

\* ------------------------------------------------------- the network ----
\* A Q-function approximator: the trainable parameters are one output bias
\* per action on top of fixed features of the state.
Features(state) == [a \in Actions |-> IF state % n_actions = a THEN QUnit \div 10 ELSE 0]
predict(weights, state) == [a \in Actions |-> weights[a] + Features(state)[a]]

\* np.max over the action axis.
MaxQ(q) == CHOOSE v \in {q[a] : a \in Actions} : \A a \in Actions : q[a] <= v
\* np.argmax: the first index of the maximum.
argmax(q) == CHOOSE a \in Actions : q[a] = MaxQ(q) /\ \A b \in Actions : q[b] = MaxQ(q) => a <= b

\* build_model: Keras initialises each network's parameters at random.
InitWeights == {[a \in Actions |-> 0], [a \in Actions |-> IF a = 0 THEN 0 ELSE QUnit \div 5]}


\* The parameters a run can find in the weights file (<<>>: no file).
NoFile == <<>>

\* ---------------------------------------------------------- DDQNAgent ----
\* __init__: the state of a freshly constructed agent.
AgentInit ==
    /\ epsilon = EpsUnit
    /\ memory_buffer_pointer = 0
    /\ buffer_full = FALSE
    /\ memory_buffer_current_state = [i \in 0 .. (memory_buffer_size - 1) |-> Unwritten]
    /\ memory_buffer_next_state = [i \in 0 .. (memory_buffer_size - 1) |-> Unwritten]
    /\ memory_buffer_action = [i \in 0 .. (memory_buffer_size - 1) |-> Unwritten]
    /\ memory_buffer_reward = [i \in 0 .. (memory_buffer_size - 1) |-> Unwritten]
    /\ memory_buffer_done = [i \in 0 .. (memory_buffer_size - 1) |-> Unwritten]
    /\ q_model \in InitWeights
    /\ q_target_model \in InitWeights

\* compute_action, given its two random draws: u from uniform(0, 1) and
\* random_action from choice(range(n_actions)).
ActionBranch(u) == IF u < epsilon THEN "random" ELSE "greedy"
compute_action(state, u, random_action) ==
    IF u < epsilon THEN random_action ELSE argmax(predict(q_model, state))

\* A store_episode that stops writing once the buffer is full.
store_episode_keep_oldest(state, action, reward, new_state, is_done) ==
    /\ memory_buffer_current_state' =
           IF buffer_full THEN memory_buffer_current_state
           ELSE [memory_buffer_current_state EXCEPT ![memory_buffer_pointer] = state]
    /\ memory_buffer_next_state' =
           IF buffer_full THEN memory_buffer_next_state
           ELSE [memory_buffer_next_state EXCEPT ![memory_buffer_pointer] = new_state]
    /\ memory_buffer_action' =
           IF buffer_full THEN memory_buffer_action
           ELSE [memory_buffer_action EXCEPT ![memory_buffer_pointer] = action]
    /\ memory_buffer_reward' =
           IF buffer_full THEN memory_buffer_reward
           ELSE [memory_buffer_reward EXCEPT ![memory_buffer_pointer] = reward]
    /\ memory_buffer_done' =
           IF buffer_full THEN memory_buffer_done
           ELSE [memory_buffer_done EXCEPT ![memory_buffer_pointer] = BoolToNum(is_done)]
    /\ IF memory_buffer_pointer + 1 >= memory_buffer_size
          THEN memory_buffer_pointer' = 0 /\ buffer_full' = TRUE
          ELSE memory_buffer_pointer' = memory_buffer_pointer + 1 /\ UNCHANGED buffer_full
    /\ n_stores' = n_stores + 1
    /\ call' = [op |-> "store_episode", slot |-> memory_buffer_pointer,
                 transition |-> <<state, action, reward, new_state, BoolToNum(is_done)>>]

\* A store whose pointer wraps one position too late.
store_episode_wrap_late(state, action, reward, new_state, is_done) ==
    /\ memory_buffer_current_state' =
           [memory_buffer_current_state EXCEPT ![memory_buffer_pointer] = state]
    /\ memory_buffer_next_state' =
           [memory_buffer_next_state EXCEPT ![memory_buffer_pointer] = new_state]
    /\ memory_buffer_action' =
           [memory_buffer_action EXCEPT ![memory_buffer_pointer] = action]
    /\ memory_buffer_reward' =
           [memory_buffer_reward EXCEPT ![memory_buffer_pointer] = reward]
    /\ memory_buffer_done' =
           [memory_buffer_done EXCEPT ![memory_buffer_pointer] = BoolToNum(is_done)]
    /\ IF memory_buffer_pointer + 1 > memory_buffer_size
          THEN memory_buffer_pointer' = 0 /\ buffer_full' = TRUE
          ELSE memory_buffer_pointer' = memory_buffer_pointer + 1 /\ UNCHANGED buffer_full
    /\ n_stores' = n_stores + 1
    /\ call' = [op |-> "store_episode", slot |-> memory_buffer_pointer,
                 transition |-> <<state, action, reward, new_state, BoolToNum(is_done)>>]

\* store_episode: write the transition at the pointer, advance, wrap.
store_episode(state, action, reward, new_state, is_done) ==
    /\ memory_buffer_current_state' =
           [memory_buffer_current_state EXCEPT ![memory_buffer_pointer] = state]
    /\ memory_buffer_next_state' =
           [memory_buffer_next_state EXCEPT ![memory_buffer_pointer] = new_state]
    /\ memory_buffer_action' =
           [memory_buffer_action EXCEPT ![memory_buffer_pointer] = action]
    /\ memory_buffer_reward' =
           [memory_buffer_reward EXCEPT ![memory_buffer_pointer] = reward]
    /\ memory_buffer_done' =
           [memory_buffer_done EXCEPT ![memory_buffer_pointer] = BoolToNum(is_done)]
    /\ IF memory_buffer_pointer + 1 >= memory_buffer_size
          THEN memory_buffer_pointer' = 0 /\ buffer_full' = TRUE
          ELSE memory_buffer_pointer' = memory_buffer_pointer + 1 /\ UNCHANGED buffer_full
    /\ n_stores' = n_stores + 1
    /\ call' = [op |-> "store_episode", slot |-> memory_buffer_pointer,
                 transition |-> <<state, action, reward, new_state, BoolToNum(is_done)>>]

\* A decay without the floor.
DecayedEpsilon_no_floor(e) == RoundDiv(epsilon_decay * e, DecayUnit)

\* update_epsilon: max(epsilon_decay * epsilon, min_epsilon).
DecayedEpsilon(e) == Max(RoundDiv(epsilon_decay * e, DecayUnit), min_epsilon)
update_epsilon ==
    /\ epsilon' = DecayedEpsilon(epsilon)
    /\ n_eps' = n_eps + 1
    /\ call' = [op |-> "update_epsilon", old_epsilon |-> epsilon]

\* An end pointer that forgets the full flag.
buffer_end_ptr_ignoring_full == Min(memory_buffer_pointer, memory_buffer_size)

\* train, line 75: the end of the range the batch is sampled from.
buffer_end_ptr ==
    IF ~buffer_full THEN Min(memory_buffer_pointer, memory_buffer_size)
                    ELSE memory_buffer_size
\* np.random.choice(buffer_end_ptr, k): k draws with replacement from
\* 0 .. buffer_end_ptr - 1; a ValueError when the range is empty and k > 0.
ChoiceFails(k) == buffer_end_ptr <= 0 /\ k > 0
\* A sample drawn from the whole array, written or not.
BatchChoices_whole_buffer(k) == [1 .. k -> 0 .. (memory_buffer_size - 1)]
BatchChoices(k) == [1 .. k -> 0 .. (buffer_end_ptr - 1)]

\* train, lines 78-88, for the sampled batch_indices.
q_current_states(batch_indices) ==
    [i \in DOMAIN batch_indices |->
        predict(q_model, memory_buffer_current_state[batch_indices[i]])]
q_next_states_target(batch_indices) ==
    [i \in DOMAIN batch_indices |->
        predict(q_target_model, memory_buffer_next_state[batch_indices[i]])]
\* Bellman targets that bootstrap from terminal transitions too.
bellman_targets_no_mask(batch_indices) ==
    [i \in DOMAIN batch_indices |->
        memory_buffer_reward[batch_indices[i]] * QUnit
        + RoundDiv(gamma * MaxQ(q_next_states_target(batch_indices)[i]), 100)]
bellman_targets(batch_indices) ==
    [i \in DOMAIN batch_indices |->
        memory_buffer_reward[batch_indices[i]] * QUnit
        + RoundDiv(gamma * (1 - memory_buffer_done[batch_indices[i]])
                         * MaxQ(q_next_states_target(batch_indices)[i]), 100)]
\* Regression targets whose whole row is the Bellman target.
fit_targets_whole_row(batch_indices) ==
    [i \in DOMAIN batch_indices |->
        [a \in Actions |-> bellman_targets(batch_indices)[i]]]
fit_targets(batch_indices) ==
    [i \in DOMAIN batch_indices |->
        [q_current_states(batch_indices)[i]
            EXCEPT ![memory_buffer_action[batch_indices[i]]] =
                       bellman_targets(batch_indices)[i]]]

\* q_model.fit, one epoch over one batch: one optimiser step on the squared
\* error.  Adam moves each parameter by about lr against the sign of its
\* gradient.
fit(weights, batch_indices, targets) ==
    [a \in Actions |->
        weights[a] - lr * Sign(SumSeq(
            [i \in DOMAIN batch_indices |->
                predict(weights, memory_buffer_current_state[batch_indices[i]])[a]
                - targets[i][a]]))]

train(k) ==
    /\ n_train' = n_train + 1
    /\ IF ChoiceFails(k)
          THEN /\ call' = [op |-> "train", batch_size |-> k, outcome |-> "ValueError",
                           batch_indices |-> <<>>, end |-> buffer_end_ptr,
                           q_model_before |-> q_model,
                           bellman_targets |-> <<>>, fit_targets |-> <<>>]
               /\ UNCHANGED q_model
          ELSE \E batch_indices \in BatchChoices(k) :
               /\ q_model' = fit(q_model, batch_indices, fit_targets(batch_indices))
               /\ call' = [op |-> "train", batch_size |-> k, outcome |-> "ok",
                           batch_indices |-> batch_indices, end |-> buffer_end_ptr,
                           q_model_before |-> q_model,
                           bellman_targets |-> bellman_targets(batch_indices),
                           fit_targets |-> fit_targets(batch_indices)]

\* A blend with the two rates exchanged.
CombinedWeight_rates_swapped(w_main, w_target, t) ==
    RoundDiv(w_main * (100 - t), 100) + RoundDiv(w_target * t, 100)
\* Line 93: w_main*tau + w_target*(1 - tau), for a rate t in hundredths.
\* Each product is rounded to the parameters' precision before the sum.
CombinedWeight(w_main, w_target, t) ==
    RoundDiv(w_main * t, 100) + RoundDiv(w_target * (100 - t), 100)

\* update_q_target_network: the soft update of every target parameter.  The
\* call record keeps the target before the call and, over a run of
\* consecutive calls, the length of the run and the target it started from.
update_q_target_network ==
    /\ q_target_model' =
           [a \in Actions |-> CombinedWeight(q_model[a], q_target_model[a], tau)]
    /\ n_soft' = n_soft + 1
    /\ call' = [op |-> "update_q_target_network",
                 target_before |-> q_target_model,
                 run |-> IF call.op = "update_q_target_network" THEN call.run + 1 ELSE 1,
                 run_start |-> IF call.op = "update_q_target_network"
                                  THEN call.run_start ELSE q_target_model]

save_model_weights ==
    /\ weights_file' = <<q_model>>
    /\ n_saves' = n_saves + 1
    /\ call' = [op |-> "save_model_weights"]

\* A load that restores the online network only.
load_model_weights_online_only ==
    /\ weights_file # NoFile
    /\ q_model' = weights_file[1]
    /\ UNCHANGED q_target_model

\* Lines 99-101: both networks read the same file.
load_model_weights ==
    /\ weights_file # NoFile
    /\ q_model' = weights_file[1]
    /\ q_target_model' = weights_file[1]

\* ------------------------------------------- calls made in any order ----
NoCall == [op |-> "none"]

LoopIdle ==
    /\ episode = 0
    /\ step = 0
    /\ total_steps = 0
    /\ successfull_episodes = 0
    /\ rewards = 0
    /\ reward_history = <<>>
    /\ current_state = 0
    /\ next_state = 0
    /\ done = FALSE

CountsZero ==
    /\ n_stores = 0
    /\ n_train = 0
    /\ n_soft = 0
    /\ n_eps = 0
    /\ n_saves = 0

InitAgent ==
    /\ AgentInit
    /\ weights_file = NoFile
    /\ pc = "api"
    /\ LoopIdle
    /\ call = NoCall
    /\ CountsZero

\* A caller stores its k-th transition: from state k to state k + 1.
ApiStore ==
    /\ pc = "api"
    /\ n_stores < MaxStores
    /\ \E a \in Actions, r \in ApiRewards, d \in BOOLEAN :
           store_episode(n_stores + 1, a, r, n_stores + 2, d)
    /\ UNCHANGED <<epsilon, q_model, q_target_model, weights_file, pc, loop_vars,
                   n_train, n_soft, n_eps, n_saves>>

ApiTrain ==
    /\ pc = "api"
    /\ n_train < MaxTrains
    /\ \E k \in BatchSizes : train(k)
    /\ UNCHANGED <<epsilon, buffer_vars, q_target_model, weights_file, pc, loop_vars,
                   n_stores, n_soft, n_eps, n_saves>>

NextAgent == ApiStore \/ ApiTrain
SpecAgent == InitAgent /\ [][NextAgent]_vars

\* update_epsilon called over and over on a fresh agent.
ApiUpdateEpsilon ==
    /\ pc = "api"
    /\ n_eps < MaxEpsilonCalls
    /\ update_epsilon
    /\ UNCHANGED <<buffer_vars, q_model, q_target_model, weights_file, pc, loop_vars,
                   n_stores, n_train, n_soft, n_saves>>

NextEpsilon == ApiUpdateEpsilon
SpecEpsilon == InitAgent /\ [][NextEpsilon]_vars

\* update_q_target_network called over and over while the online network is
\* left alone.  The online parameters are those of an agent that has been
\* fitted at most once per parameter; the target is as constructed.
OnlineWeights ==
    {[a \in Actions |-> w[a] + lr * j[a]] : w \in InitWeights, j \in [Actions -> -1 .. 1]}

InitSoft ==
    /\ epsilon = EpsUnit
    /\ memory_buffer_pointer = 0
    /\ buffer_full = FALSE
    /\ memory_buffer_current_state = [i \in 0 .. (memory_buffer_size - 1) |-> Unwritten]
    /\ memory_buffer_next_state = [i \in 0 .. (memory_buffer_size - 1) |-> Unwritten]
    /\ memory_buffer_action = [i \in 0 .. (memory_buffer_size - 1) |-> Unwritten]
    /\ memory_buffer_reward = [i \in 0 .. (memory_buffer_size - 1) |-> Unwritten]
    /\ memory_buffer_done = [i \in 0 .. (memory_buffer_size - 1) |-> Unwritten]
    /\ q_model \in OnlineWeights
    /\ q_target_model \in InitWeights
    /\ weights_file = NoFile
    /\ pc = "api"
    /\ LoopIdle
    /\ call = NoCall
    /\ CountsZero

ApiSoftUpdate ==
    /\ pc = "api"
    /\ n_soft < MaxSoftCalls
    /\ update_q_target_network
    /\ UNCHANGED <<epsilon, buffer_vars, q_model, weights_file, pc, loop_vars,
                   n_stores, n_train, n_eps, n_saves>>

NextSoft == ApiSoftUpdate
SpecSoft == InitSoft /\ [][NextSoft]_vars

\* ------------------------------------------------ run_training_routine ----
\* Lines 103-118: a fresh agent, empty history, counters at zero.
InitTrain ==
    /\ AgentInit
    /\ weights_file = NoFile
    /\ pc = "reset"
    /\ LoopIdle
    /\ call = NoCall
    /\ CountsZero

\* A gate without the warm-up test.
TrainDue_no_warmup(steps) == steps % q_network_update_freq = 0
\* Lines 139-140: the condition under which a step trains.
TrainDue(steps) == steps >= batch_size /\ steps % q_network_update_freq = 0
\* Line 146: the test on the episode's cumulative reward.
IsSuccess(r) == r >= success_threshold
\* An early-termination test that is off by one.
ThresholdReached_strict(n) == n > successfull_episodes_threshold
\* Line 160: the early-termination test.
ThresholdReached(n) == n >= successfull_episodes_threshold

\* A reset that carries the episode reward over from the previous episode.
TrainReset_keeps_rewards ==
    /\ pc = "reset"
    /\ episode < n_episodes
    /\ \E s \in ResetObs : current_state' = s
    /\ step' = 0
    /\ pc' = IF max_iterations_ep > 0 THEN "step" ELSE "episode_end"
    /\ UNCHANGED <<agent_vars, weights_file, episode, total_steps, successfull_episodes,
                   rewards, reward_history, next_state, done, call, count_vars>>

\* Lines 120-127: the episode loop's test, env.reset(), rewards = 0.
TrainReset ==
    /\ pc = "reset"
    /\ episode < n_episodes
    /\ \E s \in ResetObs : current_state' = s
    /\ rewards' = 0
    /\ step' = 0
    /\ pc' = IF max_iterations_ep > 0 THEN "step" ELSE "episode_end"
    /\ UNCHANGED <<agent_vars, weights_file, episode, total_steps, successfull_episodes,
                   reward_history, next_state, done, call, count_vars>>

\* Lines 130-140: one environment step, the store and the gate.
TrainStep ==
    /\ pc = "step"
    /\ \E u \in UniformDraws, random_action \in Actions,
          s \in StepObs(current_state), reward \in RewardValues, d \in BOOLEAN :
           LET action == compute_action(current_state, u, random_action) IN
           /\ total_steps' = total_steps + 1
           /\ next_state' = s
           /\ done' = d
           /\ rewards' = rewards + reward
           /\ store_episode(current_state, action, reward, s, d)
    /\ pc' = IF TrainDue(total_steps') THEN "train" ELSE "done_check"
    /\ UNCHANGED <<epsilon, q_model, q_target_model, weights_file, episode, step,
                   successfull_episodes, reward_history, current_state,
                   n_train, n_soft, n_eps, n_saves>>

\* A training step that also copies the fitted parameters into the target.
TrainTrain_syncs_target ==
    /\ pc = "train"
    /\ train(batch_size)
    /\ q_target_model' = q_model'
    /\ pc' = IF call'.outcome = "ok" THEN "soft_update" ELSE "raised"
    /\ UNCHANGED <<epsilon, buffer_vars, weights_file, loop_vars,
                   n_stores, n_soft, n_eps, n_saves>>

\* Line 141.  An exception raised by train ends the routine.
TrainTrain ==
    /\ pc = "train"
    /\ train(batch_size)
    /\ pc' = IF call'.outcome = "ok" THEN "soft_update" ELSE "raised"
    /\ UNCHANGED <<epsilon, buffer_vars, q_target_model, weights_file, loop_vars,
                   n_stores, n_soft, n_eps, n_saves>>

\* A soft update after which the epsilon decay is skipped.
TrainSoftUpdate_skip_epsilon ==
    /\ pc = "soft_update"
    /\ update_q_target_network
    /\ pc' = "done_check"
    /\ UNCHANGED <<epsilon, buffer_vars, q_model, weights_file, loop_vars,
                   n_stores, n_train, n_eps, n_saves>>

\* Line 142.
TrainSoftUpdate ==
    /\ pc = "soft_update"
    /\ update_q_target_network
    /\ pc' = "update_epsilon"
    /\ UNCHANGED <<epsilon, buffer_vars, q_model, weights_file, loop_vars,
                   n_stores, n_train, n_eps, n_saves>>

\* Line 143.
TrainUpdateEpsilon ==
    /\ pc = "update_epsilon"
    /\ update_epsilon
    /\ pc' = "done_check"
    /\ UNCHANGED <<buffer_vars, q_model, q_target_model, weights_file, loop_vars,
                   n_stores, n_train, n_soft, n_saves>>

\* A step loop without the per-episode cap.
TrainDoneCheck_no_cap ==
    /\ pc = "done_check"
    /\ IF done
          THEN /\ successfull_episodes' =
                      IF IsSuccess(rewards) THEN successfull_episodes + 1
                                            ELSE successfull_episodes
               /\ pc' = "episode_end"
               /\ UNCHANGED <<current_state, step>>
          ELSE /\ current_state' = next_state
               /\ step' = step + 1
               /\ pc' = "step"
               /\ UNCHANGED successfull_episodes
    /\ UNCHANGED <<agent_vars, weights_file, episode, total_steps, rewards,
                   reward_history, next_state, done, call, count_vars>>

\* Lines 145-150 and the step loop's test.
TrainDoneCheck ==
    /\ pc = "done_check"
    /\ IF done
          THEN /\ successfull_episodes' =
                      IF IsSuccess(rewards) THEN successfull_episodes + 1
                                            ELSE successfull_episodes
               /\ pc' = "episode_end"
               /\ UNCHANGED <<current_state, step>>
          ELSE /\ current_state' = next_state
               /\ step' = step + 1
               /\ pc' = IF step + 1 < max_iterations_ep THEN "step" ELSE "episode_end"
               /\ UNCHANGED successfull_episodes
    /\ UNCHANGED <<agent_vars, weights_file, episode, total_steps, rewards,
                   reward_history, next_state, done, call, count_vars>>

\* Lines 152-160: the history entry and the early-termination test.
TrainEpisodeEnd ==
    /\ pc = "episode_end"
    /\ reward_history' = Append(reward_history, rewards)
    /\ IF ThresholdReached(successfull_episodes)
          THEN pc' = "save_early" /\ UNCHANGED episode
          ELSE /\ episode' = episode + 1
               /\ pc' = IF episode + 1 < n_episodes THEN "reset" ELSE "save_final"
    /\ UNCHANGED <<agent_vars, weights_file, step, total_steps, successfull_episodes,
                   rewards, current_state, next_state, done, call, count_vars>>

\* Lines 163-164.
TrainSaveEarly ==
    /\ pc = "save_early"
    /\ save_model_weights
    /\ pc' = "returned"
    /\ UNCHANGED <<agent_vars, loop_vars, n_stores, n_train, n_soft, n_eps>>

\* A return after the last episode that does not save.
TrainSaveFinal_no_save ==
    /\ pc = "save_final"
    /\ pc' = "returned"
    /\ UNCHANGED <<agent_vars, weights_file, loop_vars, call, count_vars>>

\* Lines 168-169.
TrainSaveFinal ==
    /\ pc = "save_final"
    /\ save_model_weights
    /\ pc' = "returned"
    /\ UNCHANGED <<agent_vars, loop_vars, n_stores, n_train, n_soft, n_eps>>

NextTrain ==
    \/ TrainReset
    \/ TrainStep
    \/ TrainTrain
    \/ TrainSoftUpdate
    \/ TrainUpdateEpsilon
    \/ TrainDoneCheck
    \/ TrainEpisodeEnd
    \/ TrainSaveEarly
    \/ TrainSaveFinal
SpecTrain == InitTrain /\ [][NextTrain]_vars


\* ----------------------------------------------------- run_sim_routine ----
\* What an earlier training run can have left in the weights file.
SavedWeights == InitWeights \cup {[a \in Actions |-> IF a = 0 THEN QUnit ELSE 0]}

\* Lines 172-173: a fresh agent; the file is whatever is on disk.
InitSim ==
    /\ AgentInit
    /\ weights_file \in {NoFile} \cup {<<w>> : w \in SavedWeights}
    /\ pc = "sim_load"
    /\ LoopIdle
    /\ call = NoCall
    /\ CountsZero

\* Line 174.  Without a file load_weights raises and the routine ends.
SimLoad ==
    /\ pc = "sim_load"
    /\ IF weights_file = NoFile
          THEN pc' = "raised" /\ UNCHANGED <<q_model, q_target_model, call>>
          ELSE load_model_weights /\ call' = [op |-> "load_model_weights"] /\ pc' = "sim_reset"
    /\ UNCHANGED <<epsilon, buffer_vars, weights_file, loop_vars, count_vars>>

\* Lines 175-178.
SimReset ==
    /\ pc = "sim_reset"
    /\ rewards' = 0
    /\ done' = FALSE
    /\ \E s \in ResetObs : current_state' = s
    /\ pc' = "sim_loop"
    /\ UNCHANGED <<agent_vars, weights_file, episode, step, total_steps,
                   successfull_episodes, reward_history, next_state, call, count_vars>>

\* A pass that leaves the reward of the terminal step out of the total.
SimStep_drops_last_reward ==
    /\ pc = "sim_loop"
    /\ ~done
    /\ step < MaxSimSteps
    /\ \E u \in UniformDraws, random_action \in Actions,
          s \in StepObs(current_state), reward \in RewardValues, d \in BOOLEAN :
           /\ call' = [op |-> "compute_action", branch |-> ActionBranch(u),
                       action |-> compute_action(current_state, u, random_action)]
           /\ current_state' = s
           /\ done' = d
           /\ rewards' = IF d THEN rewards ELSE rewards + reward
    /\ step' = step + 1
    /\ UNCHANGED <<agent_vars, weights_file, pc, episode, total_steps,
                   successfull_episodes, reward_history, next_state, count_vars>>

\* Lines 180-184: one pass of the while loop (step counts the passes).
SimStep ==
    /\ pc = "sim_loop"
    /\ ~done
    /\ step < MaxSimSteps
    /\ \E u \in UniformDraws, random_action \in Actions,
          s \in StepObs(current_state), reward \in RewardValues, d \in BOOLEAN :
           /\ call' = [op |-> "compute_action", branch |-> ActionBranch(u),
                       action |-> compute_action(current_state, u, random_action)]
           /\ current_state' = s
           /\ done' = d
           /\ rewards' = rewards + reward
    /\ step' = step + 1
    /\ UNCHANGED <<agent_vars, weights_file, pc, episode, total_steps,
                   successfull_episodes, reward_history, next_state, count_vars>>

\* Lines 186-187: the loop's exit.
SimEnd ==
    /\ pc = "sim_loop"
    /\ done
    /\ pc' = "returned"
    /\ UNCHANGED <<agent_vars, weights_file, loop_vars, call, count_vars>>

NextSim == SimLoad \/ SimReset \/ SimStep \/ SimEnd
SpecSim == InitSim /\ [][NextSim]_vars


\* ============================================================ claims ====
\* Each formula names the specification it is checked under.

\* ---- C1 (SpecAgent) ----
\* C1, as stated: after n <= C stores the valid range (buffer_end_ptr, the
\* range train samples from) has n entries and buffer_full is false; after
\* C stores buffer_full is true and the valid range is C.
C1_ValidRangeAsStated ==
    /\ n_stores <= memory_buffer_size => buffer_end_ptr = n_stores /\ ~buffer_full
    /\ n_stores = memory_buffer_size => buffer_full /\ buffer_end_ptr = memory_buffer_size

\* C1, amended: after n < C stores the valid range has exactly n entries and
\* buffer_full is false; after C stores or more buffer_full is true and the
\* valid range is exactly C.
C1_ValidRange ==
    /\ n_stores < memory_buffer_size => buffer_end_ptr = n_stores /\ ~buffer_full
    /\ n_stores >= memory_buffer_size => buffer_full /\ buffer_end_ptr = memory_buffer_size

C1_Witness ==
    /\ call.op = "store_episode"
    /\ n_stores = memory_buffer_size
    /\ buffer_full

\* ---- C2 (SpecAgent) ----
\* The number of the latest store that went to slot i (stores count from 1,
\* the k-th store carries the states k and k + 1).
LatestStore(i) ==
    CHOOSE k \in 1 .. n_stores :
        /\ (k - 1) % memory_buffer_size = i
        /\ \A j \in 1 .. n_stores : (j - 1) % memory_buffer_size = i => j <= k

\* C2: after m >= C stores the buffer reports full and holds exactly the last
\* C transitions stored, slot i holding the most recent transition whose
\* store number is congruent to i modulo C (so the (C+1)-th store overwrote
\* slot 0); the store just made sits in its slot with all its five fields.
C2_Overwrite ==
    /\ n_stores >= memory_buffer_size =>
          /\ buffer_full
          /\ \A i \in 0 .. (memory_buffer_size - 1) :
                /\ memory_buffer_current_state[i] = LatestStore(i)
                /\ memory_buffer_next_state[i] = LatestStore(i) + 1
          /\ {memory_buffer_current_state[i] : i \in 0 .. (memory_buffer_size - 1)}
                = (n_stores - memory_buffer_size + 1) .. n_stores
    /\ call.op = "store_episode" =>
          /\ call.slot = (n_stores - 1) % memory_buffer_size
          /\ <<memory_buffer_current_state[call.slot], memory_buffer_action[call.slot],
               memory_buffer_reward[call.slot], memory_buffer_next_state[call.slot],
               memory_buffer_done[call.slot]>> = call.transition

C2_Witness ==
    /\ call.op = "store_episode"
    /\ n_stores = memory_buffer_size + 2
    /\ buffer_full
    /\ memory_buffer_current_state[0] = memory_buffer_size + 1

\* ---- C3 (SpecAgent) ----
\* Every slot a batch names was written by store_episode.
BatchWritten(batch_indices) ==
    \A i \in DOMAIN batch_indices :
        /\ batch_indices[i] \in 0 .. (buffer_end_ptr - 1)
        /\ memory_buffer_current_state[batch_indices[i]] # Unwritten
        /\ memory_buffer_next_state[batch_indices[i]] # Unwritten
        /\ memory_buffer_action[batch_indices[i]] # Unwritten
        /\ memory_buffer_reward[batch_indices[i]] # Unwritten
        /\ memory_buffer_done[batch_indices[i]] # Unwritten

\* C3, as stated: in any state reachable by store_episode calls the sampling
\* step of train(k) draws k indices, each within the valid range, none of a
\* slot that was never written.
C3_SampleAsStated ==
    call.op = "train" =>
        /\ call.outcome = "ok"
        /\ Len(call.batch_indices) = call.batch_size
        /\ BatchWritten(call.batch_indices)

\* C3, amended: once at least one transition has been stored, the sampling
\* step of train(k) draws k indices, each within the valid range, none of a
\* slot that was never written; on a fresh buffer the draw raises and no
\* index is sampled.
C3_Sample ==
    call.op = "train" =>
        IF n_stores >= 1
           THEN /\ call.outcome = "ok"
                /\ Len(call.batch_indices) = call.batch_size
                /\ BatchWritten(call.batch_indices)
           ELSE /\ call.outcome = "ValueError"
                /\ call.batch_indices = <<>>

C3_Witness ==
    /\ call.op = "train"
    /\ call.outcome = "ok"
    /\ call.batch_size = 2
    /\ n_stores >= 1
    /\ ~buffer_full
    /\ buffer_end_ptr < memory_buffer_size

\* ---- C4 (SpecTrain) ----
\* C4: at every train call of run_training_routine at least batch_size
\* transitions have been stored in the run, one per step counted, and the
\* valid range is not empty, so the call samples and does not raise.
C4_TrainAfterWarmup ==
    /\ pc = "train" =>
          /\ n_stores >= batch_size
          /\ n_stores = total_steps
          /\ buffer_end_ptr >= 1
    /\ call.op = "train" =>
          /\ n_stores >= batch_size
          /\ call.end >= 1
          /\ call.outcome = "ok"

C4_Witness ==
    /\ call.op = "train"
    /\ call.outcome = "ok"
    /\ n_stores = batch_size + 1
    /\ pc = "soft_update"

\* ---- C5 (SpecTrain) ----
\* The steps so far at which the gate held.
GatedSteps ==
    {s \in 1 .. total_steps : s >= batch_size /\ s % q_network_update_freq = 0}

\* C5: a step trains exactly when the step counter is >= batch_size and a
\* multiple of the update frequency; it then makes one train call, one
\* update_q_target_network call and one update_epsilon call, in that order;
\* none of the three is made otherwise, so between steps the three counts are
\* equal, and equal to the number of gated steps.
C5_ThreeTogether ==
    LET g == Cardinality(GatedSteps) IN
    /\ pc = "train" =>
          total_steps \in GatedSteps /\ n_train = g - 1 /\ n_soft = g - 1 /\ n_eps = g - 1
    /\ pc = "soft_update" =>
          total_steps \in GatedSteps /\ n_train = g /\ n_soft = g - 1 /\ n_eps = g - 1
    /\ pc = "update_epsilon" =>
          total_steps \in GatedSteps /\ n_train = g /\ n_soft = g /\ n_eps = g - 1
    /\ pc \notin {"train", "soft_update", "update_epsilon"} =>
          n_train = g /\ n_soft = g /\ n_eps = g

C5_Witness ==
    /\ pc = "done_check"
    /\ call.op = "update_epsilon"
    /\ n_train = 1
    /\ n_soft = 1
    /\ n_eps = 1

\* ---- C6 (SpecEpsilon) ----
\* C6: every update_epsilon call leaves epsilon no larger than before and no
\* smaller than min_epsilon, epsilon never exceeds its initial 1.0, and at
\* min_epsilon a call leaves it unchanged.
C6_EpsilonMonotone ==
    [][/\ epsilon <= EpsUnit
       /\ epsilon' <= epsilon
       /\ min_epsilon <= epsilon'
       /\ epsilon = min_epsilon => epsilon' = min_epsilon]_vars

C6_Witness ==
    /\ call.op = "update_epsilon"
    /\ call.old_epsilon = min_epsilon
    /\ epsilon = min_epsilon

\* ---- C7 (SpecTrain) ----
\* C7: between episodes the successful-episode counter equals the number of
\* finished episodes whose cumulative reward met success_threshold, however
\* the episode ended.
C7_SuccessCounted ==
    pc \in {"reset", "save_early", "save_final", "returned"} =>
        successfull_episodes =
            Cardinality({i \in DOMAIN reward_history :
                            reward_history[i] >= success_threshold})

\* ---- C8 (SpecTrain) ----
\* C8: once the successful-episode counter reaches
\* successfull_episodes_threshold (it never passes it), the routine only
\* finishes the episode, saves and returns: no reset and no step follows, the
\* history ends with the reward of that episode, and the file holds the
\* online weights.
C8_EarlyTermination ==
    /\ successfull_episodes <= successfull_episodes_threshold
    /\ successfull_episodes >= successfull_episodes_threshold =>
          pc \in {"episode_end", "save_early", "returned"}
    /\ pc = "save_early" =>
          /\ successfull_episodes >= successfull_episodes_threshold
          /\ Len(reward_history) = episode + 1
          /\ reward_history[episode + 1] = rewards
    /\ pc = "returned" /\ successfull_episodes >= successfull_episodes_threshold =>
          /\ n_saves = 1
          /\ weights_file = <<q_model>>
          /\ Len(reward_history) = episode + 1
          /\ reward_history[episode + 1] = rewards

C8_Witness ==
    /\ pc = "returned"
    /\ successfull_episodes = successfull_episodes_threshold
    /\ Len(reward_history) < n_episodes
    /\ n_saves = 1

\* ---- C9 (SpecTrain) ----
\* C9: a run that has returned saved the weights exactly once, as its last
\* call on the agent, after early termination or after all n_episodes
\* episodes; before the return nothing is saved.
C9_SaveOnceAtEnd ==
    /\ pc = "returned" =>
          /\ n_saves = 1
          /\ call.op = "save_model_weights"
          /\ weights_file = <<q_model>>
          /\ \/ successfull_episodes >= successfull_episodes_threshold
             \/ episode = n_episodes /\ Len(reward_history) = n_episodes
    /\ pc # "returned" =>
          /\ n_saves = 0
          /\ weights_file = NoFile

C9_Witness ==
    /\ pc = "returned"
    /\ successfull_episodes = 0
    /\ Len(reward_history) = n_episodes
    /\ n_saves = 1

\* ---- C10 (SpecSim) ----
\* C10: every action of the evaluation loop is the greedy one, the argmax of
\* the online network's predictions; the random branch is never taken.
C10_GreedyEvaluation ==
    call.op = "compute_action" => call.branch = "greedy"


\* ---- C11 (SpecAgent) ----
\* C11: for every sampled transition with done = true the Bellman target is
\* exactly the stored reward, whatever the target network predicts for its
\* next_state; with done = false it is reward + gamma * the maximum over the
\* actions of the target network's prediction for next_state.
C11_TerminalMasking ==
    call.op = "train" /\ call.outcome = "ok" =>
        \A i \in DOMAIN call.batch_indices :
            LET b == call.batch_indices[i]
                q == predict(q_target_model, memory_buffer_next_state[b])
            IN  IF memory_buffer_done[b] = 1
                   THEN call.bellman_targets[i] = memory_buffer_reward[b] * QUnit
                   ELSE \E a \in Actions :
                           /\ \A a2 \in Actions : q[a2] <= q[a]
                           /\ call.bellman_targets[i] =
                                  memory_buffer_reward[b] * QUnit
                                  + RoundDiv(gamma * q[a], 100)

C11_Witness ==
    /\ call.op = "train"
    /\ call.outcome = "ok"
    /\ call.batch_size = 2
    /\ memory_buffer_done[call.batch_indices[1]] = 1
    /\ memory_buffer_done[call.batch_indices[2]] = 0
    /\ \E a \in Actions :
           predict(q_target_model, memory_buffer_next_state[call.batch_indices[1]])[a] > 0

\* ---- C12 (SpecAgent) ----
\* C12: train(batch_size) on a buffer that is empty or holds fewer than
\* batch_size transitions ends in an error and leaves the online parameters
\* as they were.
C12_UnderflowSignalled ==
    call.op = "train" /\ call.end < call.batch_size =>
        /\ call.outcome = "ValueError"
        /\ q_model = call.q_model_before

\* ---- C15 (SpecAgent) ----
\* C15: the matrix train passes to fit has one row per sampled index; in each
\* row the column of the action taken holds that transition's Bellman target,
\* every other column the online network's prediction from before the fit,
\* also when one buffer index is sampled twice.
C15_MaskedTargets ==
    call.op = "train" /\ call.outcome = "ok" =>
        /\ Len(call.fit_targets) = call.batch_size
        /\ \A i \in DOMAIN call.batch_indices : \A a \in Actions :
               LET b == call.batch_indices[i] IN
               call.fit_targets[i][a] =
                   IF a = memory_buffer_action[b]
                      THEN call.bellman_targets[i]
                      ELSE predict(call.q_model_before,
                                   memory_buffer_current_state[b])[a]

C15_Witness ==
    /\ call.op = "train"
    /\ call.outcome = "ok"
    /\ call.batch_size = 2
    /\ call.batch_indices[1] = call.batch_indices[2]
    /\ buffer_full

\* ---- C20 (SpecAgent) ----
\* C20: the pointer is always in 0 .. memory_buffer_size - 1; every store
\* advances it by exactly one modulo the capacity and nothing else moves it;
\* buffer_full, once true, stays true.
C20_PointerInvariant ==
    /\ [](memory_buffer_pointer \in 0..(memory_buffer_size - 1))
    /\ [][/\ n_stores' = n_stores + 1 =>
                 memory_buffer_pointer' = (memory_buffer_pointer + 1) % memory_buffer_size
          /\ n_stores' = n_stores => memory_buffer_pointer' = memory_buffer_pointer
          /\ buffer_full => buffer_full']_vars

C20_Witness ==
    /\ buffer_full
    /\ n_stores = memory_buffer_size + 1
    /\ memory_buffer_pointer = 1
    /\ n_train = 1

\* ---- C14 (SpecSim) ----
\* C14: once load_model_weights has completed, the online and the target
\* parameters are both the persisted parameters; when the load fails
\* (no file) the routine ends with the error, having taken no environment
\* step and made no agent call.
C14_LoadSynchronises ==
    /\ pc \in {"sim_reset", "sim_loop", "returned"} =>
           /\ weights_file # NoFile
           /\ q_model = weights_file[1]
           /\ q_target_model = weights_file[1]
    /\ weights_file = NoFile =>
           /\ pc \in {"sim_load", "raised"}
           /\ step = 0
           /\ rewards = 0
           /\ call = NoCall
    /\ pc = "raised" => weights_file = NoFile

C14_Witness ==
    /\ pc = "sim_reset"
    /\ call.op = "load_model_weights"
    /\ q_model \notin InitWeights
    /\ q_target_model = q_model

\* ---- C17 (SpecSim) ----
\* C17: after the load, run_sim_routine makes no store_episode, train,
\* update_q_target_network, update_epsilon or save_model_weights call, so the
\* parameters, the buffer and epsilon stay as they were right after loading;
\* the total it reports is the sum of the rewards of all passes of the loop,
\* the pass on which the environment signalled done included.
C17_NoTrainingSideEffects ==
    /\ CountsZero
    /\ epsilon = EpsUnit
    /\ memory_buffer_pointer = 0
    /\ ~buffer_full
    /\ \A i \in 0 .. (memory_buffer_size - 1) :
           /\ memory_buffer_current_state[i] = Unwritten
           /\ memory_buffer_next_state[i] = Unwritten
           /\ memory_buffer_action[i] = Unwritten
           /\ memory_buffer_reward[i] = Unwritten
           /\ memory_buffer_done[i] = Unwritten
    /\ pc \in {"sim_reset", "sim_loop", "returned"} =>
           /\ q_model = weights_file[1]
           /\ q_target_model = weights_file[1]
           /\ call.op \in {"load_model_weights", "compute_action"}
    /\ pc \in {"sim_loop", "returned"} =>
           \E r \in RewardValues : rewards = step * r
    /\ pc = "returned" => done /\ step >= 1

C17_Witness ==
    /\ pc = "returned"
    /\ step = 3
    /\ rewards = 3
    /\ call.op = "compute_action"

\* ---- C16 (SpecTrain) ----
\* C16: during a training run the target parameters change only in an
\* update_q_target_network call; a train call changes the online parameters
\* only (not the target parameters, the buffer contents, the pointer, the
\* full flag or epsilon), and the online parameters change in no other call;
\* the step that calls compute_action and store_episode, and an
\* update_epsilon call, change neither network's parameters.
C16_TargetFrame ==
    [][/\ q_target_model' # q_target_model =>
              /\ n_soft' = n_soft + 1
              /\ call'.op = "update_q_target_network"
       /\ q_model' # q_model =>
              /\ n_train' = n_train + 1
              /\ call'.op = "train"
       /\ n_train' # n_train => UNCHANGED <<q_target_model, buffer_vars, epsilon>>
       /\ (n_stores' # n_stores \/ n_eps' # n_eps) =>
              UNCHANGED <<q_model, q_target_model>>]_vars

C16_Witness ==
    /\ call.op = "update_q_target_network"
    /\ call.target_before # q_target_model
    /\ q_model \notin InitWeights
    /\ n_train >= 1
    /\ n_stores >= batch_size

\* ---- C18 (SpecTrain) ----
\* C18: reward_history gets exactly one entry per episode, appended in
\* episode order when the episode ends, equal to the sum of the rewards of
\* that episode's steps (the episode reward is zero again after every
\* reset); when the routine returns early its length is the terminating
\* episode's index plus one, otherwise it is n_episodes.
C18_RewardHistory ==
    /\ [](/\ pc \in {"reset", "step", "train", "soft_update", "update_epsilon",
                     "done_check", "episode_end", "save_final", "raised"} =>
                 Len(reward_history) = episode
          /\ pc = "save_early" => Len(reward_history) = episode + 1
          /\ pc = "save_final" => episode = n_episodes
          /\ pc = "returned" =>
                 \/ Len(reward_history) = n_episodes /\ episode = n_episodes
                 \/ /\ Len(reward_history) = episode + 1
                    /\ episode < n_episodes
                    /\ ThresholdReached(successfull_episodes)
          /\ pc = "step" => \E r \in RewardValues : rewards = step * r
          /\ pc \in {"train", "soft_update", "update_epsilon", "done_check"} =>
                 \E r \in RewardValues : rewards = (step + 1) * r
          /\ \E r \in RewardValues :
                 r * total_steps =
                     SumSeq(reward_history)
                     + (IF pc \in {"step", "train", "soft_update", "update_epsilon",
                                   "done_check", "episode_end"}
                           THEN rewards ELSE 0))
    /\ [][Len(reward_history') # Len(reward_history) =>
              /\ reward_history' = Append(reward_history, rewards)
              /\ \E r \in RewardValues :
                     rewards = r * (IF done THEN step + 1 ELSE step)]_vars

C18_Witness ==
    /\ pc = "returned"
    /\ episode < n_episodes
    /\ Len(reward_history) = episode + 1
    /\ \E i, j \in DOMAIN reward_history : reward_history[i] < reward_history[j]

\* ---- C19 (SpecTrain) ----
\* The statements the routine has left to execute, at most: those of the
\* episodes not yet started plus those left in the current episode (five per
\* step of the step loop).
EpisodeCost == 5 * max_iterations_ep + 5
StepsLeft == max_iterations_ep - step
Remaining ==
    IF pc \in {"returned", "raised"} THEN 0
    ELSE (n_episodes - episode) * EpisodeCost
         + (CASE pc = "reset" -> 5 * max_iterations_ep + 4
              [] pc = "step" -> 5 * StepsLeft + 3
              [] pc = "train" -> 5 * StepsLeft + 2
              [] pc = "soft_update" -> 5 * StepsLeft + 1
              [] pc = "update_epsilon" -> 5 * StepsLeft
              [] pc = "done_check" -> 5 * StepsLeft - 1
              [] pc = "episode_end" -> 2
              [] OTHER -> 1)

\* C19: run_training_routine terminates whatever the environment returns
\* (every statement executed lowers a non-negative bound on the statements
\* left, and only the return stops the routine): every episode takes at
\* least one and at most max_iterations_ep steps and ends at the first step
\* that returns done, at most n_episodes episodes run, train never raises,
\* and total_steps, never reset, is the number of transitions stored so far.
C19_Terminates ==
    /\ [][Remaining' < Remaining]_vars
    /\ [](/\ Remaining >= 0
          /\ pc # "returned" => ENABLED NextTrain
          /\ pc # "raised"
          /\ total_steps = n_stores
          /\ total_steps <= n_episodes * max_iterations_ep
          /\ episode <= n_episodes
          /\ step <= max_iterations_ep
          /\ pc \in {"step", "train", "soft_update", "update_epsilon", "done_check"} =>
                 /\ step < max_iterations_ep
                 /\ episode < n_episodes
          /\ pc = "step" /\ step > 0 => ~done
          /\ \A i \in DOMAIN reward_history : \E r \in RewardValues :
                 /\ reward_history[i] >= r
                 /\ reward_history[i] <= r * max_iterations_ep)

C19_Witness ==
    /\ pc = "returned"
    /\ episode = n_episodes
    /\ total_steps = n_episodes * max_iterations_ep
    /\ n_stores = total_steps

\* ---- C13 (SpecSoft) ----
RECURSIVE Pow(_, _)
Pow(b, k) == IF k = 0 THEN 1 ELSE b * Pow(b, k - 1)
Abs(x) == IF x < 0 THEN -x ELSE x
\* 1 - tau = 19/20.
TauDen == 100 \div tau
TauNum == TauDen - 1

\* C13, as stated: with the online weights constant, after k consecutive
\* update_q_target_network calls |target - online| is exactly
\* (1 - tau)^k * |target_initial - online| for every parameter, and no call
\* increases the distance.
C13_GeometricAsStated ==
    call.op = "update_q_target_network" =>
        \A a \in Actions :
            /\ Pow(TauDen, call.run) * Abs(q_target_model[a] - q_model[a])
                   = Pow(TauNum, call.run) * Abs(call.run_start[a] - q_model[a])
            /\ Abs(q_target_model[a] - q_model[a])
                   <= Abs(call.target_before[a] - q_model[a])

\* C13, amended: each call sets every target parameter to
\* tau * online + (1 - tau) * target with both products rounded, so one call
\* takes target - online to (1 - tau) times its value within one rounding
\* unit, k consecutive calls with constant online weights take it to
\* (1 - tau)^k times the initial value within k rounding units, a call
\* increases the distance by at most one rounding unit, and with tau = 1
\* one call makes the target equal to the online parameter exactly.
C13_Geometric ==
    /\ call.op = "update_q_target_network" =>
           \A a \in Actions :
               /\ Abs(100 * (q_target_model[a] - q_model[a])
                      - (100 - tau) * (call.target_before[a] - q_model[a])) <= 100
               /\ Abs(Pow(TauDen, call.run) * (q_target_model[a] - q_model[a])
                      - Pow(TauNum, call.run) * (call.run_start[a] - q_model[a]))
                      <= Pow(TauDen, call.run) * call.run
               /\ Abs(q_target_model[a] - q_model[a])
                      <= Abs(call.target_before[a] - q_model[a]) + 1
    /\ \A a \in Actions :
           CombinedWeight(q_model[a], q_target_model[a], 100) = q_model[a]

C13_Witness ==
    /\ call.op = "update_q_target_network"
    /\ call.run >= 3
    /\ \E a \in Actions :
           /\ Abs(call.run_start[a] - q_model[a]) >= QUnit \div 10
           /\ Abs(q_target_model[a] - q_model[a]) < Abs(call.target_before[a] - q_model[a])
           /\ Pow(TauDen, call.run) * Abs(q_target_model[a] - q_model[a])
                  # Pow(TauNum, call.run) * Abs(call.run_start[a] - q_model[a])

====
